---------------------------- MODULE Spec2Model ----------------------------
(***************************************************************************)
(* A model of the QQQ analyser's data layer (src/data_fetcher.py) and of   *)
(* the two HTTP handlers that drive it (src/app.py).                       *)
(*                                                                         *)
(* Representation.                                                         *)
(*  - A string whose characters matter (a ticker) is a sequence of         *)
(*    one-character strings, so that strip/upper/replace and the ticker    *)
(*    regular expression are computed, not assumed.                        *)
(*  - A float that may be missing is <<>> (None, or NaN for a weight) or   *)
(*    <<v>> with v an integer number of units.  Weights are in units of    *)
(*    1/10000 (One = weight 1.0); a percentage "8.40%" is the integer 840  *)
(*    (hundredths of a percent), so dividing the percentage by 100.0       *)
(*    yields the weight with the same integer.                             *)
(*  - time.time() is the integer clock, in seconds.                        *)
(*  - The name and sector columns of a holding are not modelled.           *)
(***************************************************************************)
EXTENDS Integers, Sequences, FiniteSets, TLC

VARIABLES
    cache,      \* the module-level _cache dictionary
    clock,      \* wall-clock time, seconds
    steps,      \* number of clock-advancing events so far (bounds the model)
    op,         \* the last event: an operation's name, or "tick" for time passing
    prevop,     \* the operation called before the last event
    ret,        \* what the last operation returned
    raised,     \* TRUE iff the last operation ended by raising
    calls,      \* upstream requests issued by the last operation, in order
    arg,        \* the arguments of the operation under study (prices)
    threads     \* per request thread: where it is in get_qqq_data, and its now

vars == <<cache, clock, steps, op, prevop, ret, raised, calls, arg, threads>>

---------------------------------------------------------------------------
(* Bounds of the model *)

MaxSteps == 4          \* clock-advancing events per behaviour
MaxRows == 2           \* rows of an upstream holdings table
StartClock == 100000   \* time.time() when the process starts

(* Program constants *)

PRICE_CACHE_TTL == 60
HOLDINGS_CACHE_TTL == 86400
One == 10000           \* weight 1.0 in weight units
YfPercentThreshold == 15000   \* 1.5 in weight units

---------------------------------------------------------------------------
(* Characters and strings *)

UpperSeq == << "A","B","C","D","E","F","G","H","I","J","K","L","M",
               "N","O","P","Q","R","S","T","U","V","W","X","Y","Z" >>
LowerSeq == << "a","b","c","d","e","f","g","h","i","j","k","l","m",
               "n","o","p","q","r","s","t","u","v","w","x","y","z" >>
UpperChars == { UpperSeq[i] : i \in DOMAIN UpperSeq }
Whitespace == { " ", "\t" }

upper_char(c) ==
    CASE c \in UpperChars -> c
      [] c = "a" -> "A" [] c = "b" -> "B" [] c = "c" -> "C" [] c = "d" -> "D"
      [] c = "e" -> "E" [] c = "f" -> "F" [] c = "g" -> "G" [] c = "h" -> "H"
      [] c = "i" -> "I" [] c = "j" -> "J" [] c = "k" -> "K" [] c = "l" -> "L"
      [] c = "m" -> "M" [] c = "n" -> "N" [] c = "o" -> "O" [] c = "p" -> "P"
      [] c = "q" -> "Q" [] c = "r" -> "R" [] c = "s" -> "S" [] c = "t" -> "T"
      [] c = "u" -> "U" [] c = "v" -> "V" [] c = "w" -> "W" [] c = "x" -> "X"
      [] c = "y" -> "Y" [] c = "z" -> "Z"
      [] OTHER -> c

\* str.upper()
str_upper(s) == [i \in 1..Len(s) |-> upper_char(s[i])]

RECURSIVE lstrip(_)
lstrip(s) == IF s # <<>> /\ Head(s) \in Whitespace THEN lstrip(Tail(s)) ELSE s

RECURSIVE rstrip(_)
rstrip(s) ==
    IF s # <<>> /\ s[Len(s)] \in Whitespace
    THEN rstrip(SubSeq(s, 1, Len(s) - 1))
    ELSE s

\* a.upper() == b.upper()
equals_ignore_case(a, b) ==
    /\ Len(a) = Len(b)
    /\ \A k \in 1..Len(a) : upper_char(a[k]) = upper_char(b[k])

\* str.strip()
str_strip(s) == rstrip(lstrip(s))

\* str.match(r'^[A-Z]{1,5}(-[A-Z])?$') applied to a stripped string
ticker_match(s) ==
    \/ /\ Len(s) \in 1..5
       /\ \A i \in 1..Len(s) : s[i] \in UpperChars
    \/ /\ Len(s) \in 3..7
       /\ \A i \in 1..(Len(s) - 2) : s[i] \in UpperChars
       /\ s[Len(s) - 1] = "-"
       /\ s[Len(s)] \in UpperChars

---------------------------------------------------------------------------
(* Optional floats *)

None == <<>>
NaN == <<>>
Num(v) == <<v>>
IsNum(x) == x # <<>>
Val(x) == x[1]

---------------------------------------------------------------------------
(* Sequences of rows *)

\* DataFrame.sort_values("weight", ascending=False): rows with a larger
\* weight first, rows with a NaN weight last (na_position="last"), rows with
\* equal weights in their original order.
GoesBefore(a, b) ==
    /\ IsNum(a.weight)
    /\ (~IsNum(b.weight) \/ Val(a.weight) > Val(b.weight))

RECURSIVE InsertRow(_, _)
InsertRow(r, sorted) ==
    IF sorted = <<>> THEN <<r>>
    ELSE IF GoesBefore(r, sorted[Len(sorted)])
         THEN Append(InsertRow(r, SubSeq(sorted, 1, Len(sorted) - 1)),
                     sorted[Len(sorted)])
         ELSE Append(sorted, r)

RECURSIVE sort_values_desc(_)
sort_values_desc(rows) ==
    IF rows = <<>> THEN <<>>
    ELSE InsertRow(rows[Len(rows)], sort_values_desc(SubSeq(rows, 1, Len(rows) - 1)))

---------------------------------------------------------------------------
(* Holdings: the upstream responses                                        *)
(*                                                                         *)
(* A response is [kind, rows].  kind "error": the request raised (network  *)
(* error, HTTP error status, timeout).  kind "nocols": the payload parsed  *)
(* but holds no ticker or no weight column (for yfinance: top_holdings is  *)
(* None or empty).  kind "table": rows of [ticker, weight] cells.          *)
(* A ticker cell is [na, s]: missing, or the string s.                     *)
(* A weight cell is [k, v]: k = "num" a number v (for a CSV or HTML cell   *)
(* the text "v%" in hundredths of a percent; for yfinance the float v in   *)
(* weight units), k = "na" a missing cell, k = "text" text that is no      *)
(* number.                                                                 *)

Str(s) == [na |-> FALSE, s |-> s]
NaCell == [na |-> TRUE, s |-> <<>>]
Pct(v) == [k |-> "num", v |-> v]
NaWeight == [k |-> "na", v |-> 0]
TextWeight == [k |-> "text", v |-> 0]

ErrorResponse == [kind |-> "error", rows |-> <<>>]
NoColsResponse == [kind |-> "nocols", rows |-> <<>>]
Table(rows) == [kind |-> "table", rows |-> rows]

\* What a function returning "DataFrame | None" produces: a frame, None, or
\* an exception that escapes it.
Frame(rows) == [kind |-> "df", rows |-> rows]
NoFrame == [kind |-> "none", rows |-> <<>>]
Raises == [kind |-> "exc", rows |-> <<>>]

\* Faulty variant: only "df is None" is tested
IsNoneOnly(df) == df.kind = "none"

\* df is None or df.empty
IsNoneOrEmpty(df) == df.kind = "none" \/ df.rows = <<>>

\* Faulty variant: no try/except around the fetcher's body
ExceptPropagates(outcome) == outcome

\* try: ... except Exception: return None
ExceptReturnNone(outcome) == IF outcome.kind = "exc" THEN NoFrame ELSE outcome

---------------------------------------------------------------------------
(* Holdings: the four tiers *)

IsStrCell(c) == ~c.na
KeepsTicker(r) == ticker_match(r.ticker)
HasPositiveWeight(r) == Val(r.weight) > 0

\* A pandas column read from text has the string methods (.str) unless it
\* holds no string at all: a column of missing cells only is a float column
\* and .str raises on it.
TickerColumnIsText(raw) == raw = <<>> \/ \E i \in DOMAIN raw : ~raw[i].ticker.na
WeightColumnIsText(raw) == raw = <<>> \/ \E i \in DOMAIN raw : raw[i].weight.k # "na"

\* df[df["ticker"].notna()]; .str.strip().str.upper(); .str.match(...)
clean_tickers(raw) ==
    LET notna == SelectSeq(raw, LAMBDA r : IsStrCell(r.ticker))
        cleaned == [i \in 1..Len(notna) |->
                       [ticker |-> str_upper(str_strip(notna[i].ticker.s)),
                        weight |-> notna[i].weight]]
    IN  SelectSeq(cleaned, KeepsTicker)

\* .str.replace("%", "").str.strip().astype(float) / 100.0 : a missing cell
\* stays NaN, text that is no number raises ValueError.
invesco_weight(c) == IF c.k = "num" THEN Num(c.v) ELSE NaN

\* pd.to_numeric(..., errors="coerce").fillna(0) / 100.0
coerced_weight(c) == IF c.k = "num" THEN Num(c.v) ELSE Num(0)

invesco_parse(resp) ==
    IF resp.kind = "error" THEN Raises
    ELSE IF resp.kind = "nocols" THEN NoFrame
    ELSE IF ~TickerColumnIsText(resp.rows) THEN Raises
    ELSE LET kept == clean_tickers(resp.rows)
         IN  IF ~WeightColumnIsText(resp.rows) THEN Raises
             ELSE IF \E i \in DOMAIN kept : kept[i].weight.k = "text" THEN Raises
             ELSE Frame(sort_values_desc(
                     [i \in 1..Len(kept) |->
                         [ticker |-> kept[i].ticker,
                          weight |-> invesco_weight(kept[i].weight)]]))

fetch_holdings_invesco(resp) == ExceptReturnNone(invesco_parse(resp))

slickcharts_parse(resp) ==
    IF resp.kind = "error" THEN Raises
    ELSE IF resp.kind = "nocols" THEN NoFrame
    ELSE IF ~TickerColumnIsText(resp.rows) THEN Raises
    ELSE LET kept == clean_tickers(resp.rows)
             weighted == [i \in 1..Len(kept) |->
                             [ticker |-> kept[i].ticker,
                              weight |-> coerced_weight(kept[i].weight)]]
         IN  Frame(sort_values_desc(SelectSeq(weighted, HasPositiveWeight)))

fetch_holdings_slickcharts(resp) == ExceptReturnNone(slickcharts_parse(resp))

\* A ticker cell that holds no string (a missing Symbol is the float NaN)
\* is kept as the value NotAString, which has none of the str methods.
NotAString == << "float('nan')" >>
cell_value(c) == IF c.na THEN NotAString ELSE c.s

MaxWeight(rows) ==
    CHOOSE m \in { Val(rows[i].weight) : i \in DOMAIN rows } :
        \A i \in DOMAIN rows : Val(rows[i].weight) <= m

yfinance_parse(resp) ==
    IF resp.kind = "error" THEN Raises
    ELSE IF resp.kind = "nocols" \/ resp.rows = <<>> THEN NoFrame
    ELSE LET top == [i \in 1..Len(resp.rows) |->
                        [ticker |-> cell_value(resp.rows[i].ticker),
                         weight |-> coerced_weight(resp.rows[i].weight)]]
             scaled == IF MaxWeight(top) > YfPercentThreshold
                       THEN [i \in 1..Len(top) |->
                                [ticker |-> top[i].ticker,
                                 weight |-> Num(Val(top[i].weight) \div 100)]]
                       ELSE top
         IN  Frame(sort_values_desc(scaled))

fetch_holdings_yfinance(resp) == ExceptReturnNone(yfinance_parse(resp))

STATIC_HOLDINGS == <<
    [ticker |-> <<"M","S","F","T">>, weight |-> Num(840)],
    [ticker |-> <<"N","V","D","A">>, weight |-> Num(820)],
    [ticker |-> <<"A","A","P","L">>, weight |-> Num(790)],
    [ticker |-> <<"A","M","Z","N">>, weight |-> Num(530)],
    [ticker |-> <<"G","O","O","G","L">>, weight |-> Num(390)],
    [ticker |-> <<"M","E","T","A">>, weight |-> Num(380)],
    [ticker |-> <<"G","O","O","G">>, weight |-> Num(330)],
    [ticker |-> <<"T","S","L","A">>, weight |-> Num(290)],
    [ticker |-> <<"C","O","S","T">>, weight |-> Num(250)],
    [ticker |-> <<"A","V","G","O">>, weight |-> Num(240)],
    [ticker |-> <<"N","F","L","X">>, weight |-> Num(170)],
    [ticker |-> <<"A","M","D">>, weight |-> Num(160)],
    [ticker |-> <<"A","D","B","E">>, weight |-> Num(130)],
    [ticker |-> <<"Q","C","O","M">>, weight |-> Num(120)],
    [ticker |-> <<"P","E","P">>, weight |-> Num(120)],
    [ticker |-> <<"A","M","A","T">>, weight |-> Num(110)],
    [ticker |-> <<"C","S","C","O">>, weight |-> Num(100)],
    [ticker |-> <<"T","X","N">>, weight |-> Num(90)],
    [ticker |-> <<"I","N","T","C">>, weight |-> Num(80)],
    [ticker |-> <<"I","N","T","U">>, weight |-> Num(80)],
    [ticker |-> <<"A","M","G","N">>, weight |-> Num(70)],
    [ticker |-> <<"I","S","R","G">>, weight |-> Num(70)],
    [ticker |-> <<"H","O","N">>, weight |-> Num(60)],
    [ticker |-> <<"B","K","N","G">>, weight |-> Num(60)],
    [ticker |-> <<"S","B","U","X">>, weight |-> Num(60)],
    [ticker |-> <<"G","I","L","D">>, weight |-> Num(50)],
    [ticker |-> <<"M","D","L","Z">>, weight |-> Num(50)],
    [ticker |-> <<"A","D","P">>, weight |-> Num(50)],
    [ticker |-> <<"P","A","N","W">>, weight |-> Num(50)],
    [ticker |-> <<"R","E","G","N">>, weight |-> Num(40)] >>

get_static_holdings == Frame(sort_values_desc(STATIC_HOLDINGS))

---------------------------------------------------------------------------
(* Prices                                                                  *)
(*                                                                         *)
(* A yf.download() response is [kind, layout, cols, flat].  kind "error":  *)
(* the call raised.  kind "frame": a DataFrame whose "Close" columns are   *)
(* cols, a function from the vendor's ticker to a series, under a          *)
(* MultiIndex layout ("ticker_major": (ticker, field), "field_major":      *)
(* (field, ticker)); under layout "flat" the frame has the single "Close"  *)
(* column flat.  A series is a sequence of cells [k, v]: a number v, a     *)
(* missing value (NaN) or a value float() rejects.  Raw prices are in      *)
(* thousandths of a dollar; a quote holds price, prev_close and            *)
(* change_dollar in cents (round(x, 2)) and change_pct in units of 0.0001  *)
(* percent (round(x, 4)).                                                  *)

Px(v) == [k |-> "num", v |-> v]
NaPx == [k |-> "na", v |-> 0]
BadPx == [k |-> "text", v |-> 0]

DownloadError == [kind |-> "error", layout |-> "flat", cols |-> <<>>, flat |-> <<>>]
MultiFrame(layout, cols) == [kind |-> "frame", layout |-> layout, cols |-> cols, flat |-> <<>>]
FlatFrame(series) == [kind |-> "frame", layout |-> "flat", cols |-> <<>>, flat |-> series]

\* round(a / b, ndigits) on the scaled integers, b > 0: to nearest, ties to even
RoundDiv(a, b) ==
    LET q == a \div b
        r == a % b
    IN  IF 2 * r < b THEN q
        ELSE IF 2 * r > b THEN q + 1
        ELSE IF q % 2 = 0 THEN q ELSE q + 1

\* Faulty variant: the empty quote zero-filled instead of absent
empty_price_zero_filled ==
    [price |-> Num(0), prev_close |-> Num(0), change_dollar |-> Num(0),
     change_pct |-> Num(0), valid |-> FALSE]

empty_price ==
    [price |-> None, prev_close |-> None, change_dollar |-> None,
     change_pct |-> None, valid |-> FALSE]

RECURSIVE str_replace(_, _, _)
str_replace(s, old, new) ==
    IF s = <<>> THEN <<>>
    ELSE << IF Head(s) = old THEN new ELSE Head(s) >> \o str_replace(Tail(s), old, new)

normalize_ticker(t) == str_replace(str_replace(t, ".", "-"), "/", "-")

IsNotNa(cell) == cell.k # "na"
dropna(series) == SelectSeq(series, IsNotNa)

\* df is None or df.empty
FrameUnusable(df) ==
    \/ df.kind = "error"
    \/ /\ df.layout = "flat" /\ df.flat = <<>>
    \/ /\ df.layout # "flat"
       /\ \A c \in DOMAIN df.cols : df.cols[c] = <<>>

\* get_series(df, "Close"): the ticker's non-missing closes, or <<>> for None
get_series(df, ticker, n_tickers) ==
    IF FrameUnusable(df) THEN <<>>
    ELSE IF n_tickers > 1 /\ df.layout # "flat"
    THEN \* MultiIndex columns: the ticker's column, compared case-insensitively
         LET hits == { c \in DOMAIN df.cols :
                         equals_ignore_case(c, ticker) /\ dropna(df.cols[c]) # <<>> }
         IN  IF hits = {} THEN <<>>
             ELSE dropna(df.cols[CHOOSE c \in hits : TRUE])
    ELSE IF df.layout = "flat" THEN dropna(df.flat)
    ELSE IF df.layout = "field_major" /\ Cardinality(DOMAIN df.cols) = 1
    THEN \* "Close" in df.columns: df["Close"] is the one-column sub-frame
         dropna(df.cols[CHOOSE c \in DOMAIN df.cols : TRUE])
    ELSE IF df.layout = "field_major"
    THEN \* a sub-frame of several columns: float() of one of its rows raises
         IF \E i \in 1..Len(df.cols[CHOOSE c \in DOMAIN df.cols : TRUE]) :
               \A c \in DOMAIN df.cols : i <= Len(df.cols[c]) /\ df.cols[c][i].k # "na"
         THEN << BadPx >>
         ELSE <<>>
    ELSE \* (ticker, field) columns: "Close" is no top-level column
         <<>>

\* The outcome of _extract_price: [exc, quote]; exc when float() raised.
Extracted(q) == [exc |-> FALSE, quote |-> q]
ExtractRaised == [exc |-> TRUE, quote |-> empty_price]

Last(s) == s[Len(s)]

\* Faulty variant: the previous close read from the last daily bar
last_daily_cell(sd) == Last(sd)

\* Lines 477-483: s.iloc[-2] when len(s) >= 2, else s.iloc[-1]
prev_close_cell(sd) == IF Len(sd) >= 2 THEN sd[Len(sd) - 1] ELSE Last(sd)

\* Faulty variant: the percentage taken from the two amounts as reported,
\* rounded to cents
change_pct_of_reported(change, prev_close) ==
    IF RoundDiv(prev_close, 10) > 0
    THEN RoundDiv(RoundDiv(change, 10) * 1000000, RoundDiv(prev_close, 10))
    ELSE 0

\* Lines 492 and 498: round(change_dollar / prev_close * 100.0, 4) on the
\* unrounded amounts, 0.0 when prev_close == 0
change_pct_of(change, prev_close) ==
    IF prev_close > 0 THEN RoundDiv(change * 1000000, prev_close)
    ELSE IF prev_close < 0 THEN RoundDiv((0 - change) * 1000000, 0 - prev_close)
    ELSE 0

\* Lines 469-500: the quote computed from the two series of closes
quote_from_closes(si, sd) ==
    LET prev_cell == prev_close_cell(sd)
    IN  IF si # <<>> /\ Last(si).k = "text" THEN ExtractRaised
        ELSE IF sd # <<>> /\ prev_cell.k = "text" THEN ExtractRaised
        ELSE IF sd # <<>> /\ si = <<>> /\ Last(sd).k = "text" THEN ExtractRaised
        ELSE IF sd = <<>> THEN Extracted(empty_price)
        ELSE LET current_price == IF si # <<>> THEN Last(si).v ELSE Last(sd).v
                 prev_close == prev_cell.v
                 change == current_price - prev_close
             IN  Extracted(
                   [price |-> Num(RoundDiv(current_price, 10)),
                    prev_close |-> Num(RoundDiv(prev_close, 10)),
                    change_dollar |-> Num(RoundDiv(change, 10)),
                    change_pct |-> Num(change_pct_of(change, prev_close)),
                    valid |-> TRUE])

extract_price(ticker, intraday, daily, n_tickers) ==
    quote_from_closes(get_series(intraday, ticker, n_tickers),
                      get_series(daily, ticker, n_tickers))

\* Faulty variant: the loop of get_prices_batch without its try/except
extract_unguarded(ticker, intraday, daily, n_tickers) ==
    extract_price(ticker, intraday, daily, n_tickers)

\* except Exception: data = _empty_price()
or_empty_price(r) == IF r.exc THEN Extracted(empty_price) ELSE r

\* try: data = _extract_price(...) except Exception: data = _empty_price()
extract_guarded(ticker, intraday, daily, n_tickers) ==
    or_empty_price(extract_price(ticker, intraday, daily, n_tickers))

\* norm_map = {_normalize_ticker(t): t for t in tickers}: the last ticker
\* with a given normalised form wins
norm_map(tickers) ==
    LET norm == [i \in DOMAIN tickers |-> normalize_ticker(tickers[i])]
    IN  [nt \in { norm[i] : i \in DOMAIN tickers } |->
            tickers[CHOOSE i \in DOMAIN tickers :
                        /\ norm[i] = nt
                        /\ \A j \in DOMAIN tickers : norm[j] = nt => j <= i]]

\* The result of get_prices_batch: [raised, quotes, calls]; quotes maps each
\* original ticker written by the loop to its quote.
batch_result(nm, per) ==
    IF \E nt \in DOMAIN nm : per[nt].exc
    THEN [raised |-> TRUE, quotes |-> <<>>, calls |-> << "intraday", "daily" >>]
    ELSE [raised |-> FALSE,
          quotes |-> [t \in { nm[nt] : nt \in DOMAIN nm } |->
                         per[CHOOSE nt \in DOMAIN nm : nm[nt] = t].quote],
          calls |-> << "intraday", "daily" >>]

\* Lines 393-400: the loop over the normalised tickers
batch_loop(nm, intraday_resp, daily_resp) ==
    batch_result(nm, [nt \in DOMAIN nm |->
                        extract_guarded(nt, intraday_resp, daily_resp,
                                        Cardinality(DOMAIN nm))])

\* Line 348 is outside every try: t.replace raises AttributeError for a
\* ticker that is no string, before any download is requested.
get_prices_batch(tickers, intraday_resp, daily_resp) ==
    IF tickers = <<>> THEN [raised |-> FALSE, quotes |-> <<>>, calls |-> <<>>]
    ELSE IF \E i \in DOMAIN tickers : tickers[i] = NotAString
    THEN [raised |-> TRUE, quotes |-> <<>>, calls |-> <<>>]
    ELSE batch_loop(norm_map(tickers), intraday_resp, daily_resp)

---------------------------------------------------------------------------
(* The cache *)

\* The specifications of single calls have no request threads.
NoThreads == <<>>

NoData == [kind |-> "none"]

InitCache ==
    [ data |-> NoData,          timestamp |-> 0,
      holdings |-> NoFrame,     holdings_ts |-> 0,
      market_caps |-> NoData,   market_caps_ts |-> 0 ]

---------------------------------------------------------------------------
(* get_qqq_holdings                                                        *)
(*                                                                         *)
(* The result of a call is [ret, cache, calls, raised]: the value          *)
(* returned, the cache after the call, the sources requested in order     *)
(* (each with the value its fetcher returned) and whether the call raised. *)
(* R1, R2, R3 are the values the three fetchers can return, one per        *)
(* possible upstream response; a source's response is drawn only when the  *)
(* source is requested.                                                    *)

Tried(src, df) == [src |-> src, df |-> df]

\* Faulty variant: the holdings slot is aged against the price TTL
HoldingsFreshPriceTTL(c, now) ==
    c.holdings.kind # "none" /\ (now - c.holdings_ts) < PRICE_CACHE_TTL

HoldingsFresh(c, now) ==
    c.holdings.kind # "none" /\ (now - c.holdings_ts) < HOLDINGS_CACHE_TTL

HoldingsRaised(c, log) ==
    [ret |-> NoFrame, cache |-> c, calls |-> log, raised |-> TRUE]

HoldingsStored(c, now, df, log) ==
    [ret |-> df,
     cache |-> [c EXCEPT !.holdings = df, !.holdings_ts = now],
     calls |-> log, raised |-> FALSE]

get_qqq_holdings(c, now, R1, R2, R3) ==
    IF HoldingsFresh(c, now)
    THEN { [ret |-> c.holdings, cache |-> c, calls |-> <<>>, raised |-> FALSE] }
    ELSE
      LET Static(log) ==
              HoldingsStored(c, now, get_static_holdings,
                             Append(log, Tried("static", get_static_holdings)))
          Tier3(log2) ==
              UNION { LET log3 == Append(log2, Tried("yfinance", df3))
                      IN  IF df3.kind = "exc" THEN { HoldingsRaised(c, log3) }
                          ELSE IF IsNoneOrEmpty(df3) THEN { Static(log3) }
                          ELSE { HoldingsStored(c, now, df3, log3) }
                      : df3 \in R3 }
          Tier2(log1) ==
              UNION { LET log2 == Append(log1, Tried("slickcharts", df2))
                      IN  IF df2.kind = "exc" THEN { HoldingsRaised(c, log2) }
                          ELSE IF IsNoneOrEmpty(df2) THEN Tier3(log2)
                          ELSE { HoldingsStored(c, now, df2, log2) }
                      : df2 \in R2 }
      IN  UNION { LET log1 == << Tried("invesco", df1) >>
                  IN  IF df1.kind = "exc" THEN { HoldingsRaised(c, log1) }
                      ELSE IF IsNoneOrEmpty(df1) THEN Tier2(log1)
                      ELSE { HoldingsStored(c, now, df1, log1) }
                  : df1 \in R1 }

---------------------------------------------------------------------------
(* Market capitalisations                                                  *)
(*                                                                         *)
(* The vendor's answer to the per-ticker requests is [down, failing,       *)
(* value]: every request raises when down, the requests for the tickers    *)
(* in failing raise, every other request yields its ticker's market cap    *)
(* value[ticker] (0 stands for a missing or zero fast_info.market_cap).    *)

\* Faulty variant: one failing request voids every ticker's market cap
fetch_all_or_nothing(ticker, resp) ==
    IF resp.down \/ resp.failing # {} THEN None
    ELSE IF resp.value[ticker] = 0 THEN None
    ELSE Num(resp.value[ticker])

fetch_single_market_cap(ticker, resp) ==
    IF resp.down \/ ticker \in resp.failing THEN None
    ELSE IF resp.value[ticker] = 0 THEN None
    ELSE Num(resp.value[ticker])

\* Lines 545-546: result[ticker] = mc
collect(result, ticker, mc) ==
    [t \in DOMAIN result \cup { ticker } |-> IF t = ticker THEN mc ELSE result[t]]

MarketCapsFresh(c, now) ==
    c.market_caps.kind # "none" /\ (now - c.market_caps_ts) < HOLDINGS_CACHE_TTL

\* The result of get_market_caps: [ret, cache, calls]; ret is the map
\* [kind |-> "caps", of |-> ticker -> cap or None].
get_market_caps(c, now, tickers, resp) ==
    IF MarketCapsFresh(c, now)
    THEN [ret |-> c.market_caps, cache |-> c, calls |-> <<>>]
    ELSE LET result == [kind |-> "caps",
                        of |-> [t \in { tickers[i] : i \in DOMAIN tickers } |->
                                   fetch_single_market_cap(t, resp)]]
         IN  [ret |-> result,
              cache |-> [c EXCEPT !.market_caps = result, !.market_caps_ts = now],
              calls |-> tickers]

---------------------------------------------------------------------------
(* Market status *)

\* datetime.now(America/New_York) as [weekday, t]: Monday = 0, t seconds
\* after local midnight.  Eastern Standard Time (UTC-5) throughout: daylight
\* saving time is not modelled.
eastern_now(now) ==
    LET local == now - 5 * 3600
    IN  [weekday |-> ((local \div 86400) + 3) % 7, t |-> local % 86400]

\* Faulty variant: only Sunday counts as the weekend
is_sunday(weekday) == weekday >= 6

\* now.weekday() >= 5: Saturday = 5, Sunday = 6
is_weekend(weekday) == weekday >= 5

get_market_status(now) ==
    LET et == eastern_now(now)
        base == [session |-> "closed", refresh_interval |-> 300, time_et |-> et.t]
    IN  IF is_weekend(et.weekday) THEN base
        ELSE IF 4 * 3600 <= et.t /\ et.t < 9 * 3600 + 1800
        THEN [base EXCEPT !.session = "pre", !.refresh_interval = 120]
        ELSE IF 9 * 3600 + 1800 <= et.t /\ et.t < 16 * 3600
        THEN [base EXCEPT !.session = "open", !.refresh_interval = 75]
        ELSE IF 16 * 3600 <= et.t /\ et.t < 20 * 3600
        THEN [base EXCEPT !.session = "after", !.refresh_interval = 120]
        ELSE base

---------------------------------------------------------------------------
(* Contributions and the aggregate result *)

\* round(weight * change_pct, 4); NaN when the weight is NaN
calculate_contribution(weight, change_pct) ==
    IF IsNum(weight) THEN Num(RoundDiv(Val(weight) * change_pct, One)) ELSE NaN

\* dict.get(key, default)
DictGet(d, key, default) == IF key \in DOMAIN d THEN d[key] ELSE default

\* One entry of holdings_list (lines 621-639)
holding_entry(row, prices, market_caps) ==
    LET pd == DictGet(prices, row.ticker, empty_price)
        change_pct == IF IsNum(pd.change_pct) THEN Val(pd.change_pct) ELSE 0
    IN  [ticker |-> row.ticker,
         market_cap |-> DictGet(market_caps.of, row.ticker, None),
         weight |-> IF IsNum(row.weight) THEN Num(Val(row.weight) * 100) ELSE NaN,
         price |-> pd.price,
         change_dollar |-> pd.change_dollar,
         change_pct |-> change_pct,
         contribution |-> calculate_contribution(row.weight, change_pct),
         valid |-> pd.valid]

Abs(x) == IF x < 0 THEN 0 - x ELSE x

\* list.sort(key=lambda x: abs(x["contribution"]), reverse=True): stable;
\* a comparison with a NaN key is false.
MovesBefore(a, b) ==
    /\ IsNum(a.contribution) /\ IsNum(b.contribution)
    /\ Abs(Val(a.contribution)) > Abs(Val(b.contribution))

RECURSIVE InsertEntry(_, _)
InsertEntry(e, sorted) ==
    IF sorted = <<>> THEN <<e>>
    ELSE IF MovesBefore(e, sorted[Len(sorted)])
         THEN Append(InsertEntry(e, SubSeq(sorted, 1, Len(sorted) - 1)),
                     sorted[Len(sorted)])
         ELSE Append(sorted, e)

RECURSIVE sort_by_abs_contribution(_)
sort_by_abs_contribution(entries) ==
    IF entries = <<>> THEN <<>>
    ELSE InsertEntry(entries[Len(entries)],
                     sort_by_abs_contribution(SubSeq(entries, 1, Len(entries) - 1)))

RECURSIVE SumContributions(_)
SumContributions(entries) ==
    IF entries = <<>> THEN Num(0)
    ELSE LET rest == SumContributions(Tail(entries))
         IN  IF IsNum(rest) /\ IsNum(Head(entries).contribution)
             THEN Num(Val(rest) + Val(Head(entries).contribution))
             ELSE NaN

TickerQQQ == << "Q", "Q", "Q" >>

\* Lines 613-654: the AggregateResult built from the three inputs
build_result(holdings_df, prices, market_caps, market, fetched_at) ==
    LET qqq_pd == DictGet(prices, TickerQQQ, empty_price)
        holdings_list == [i \in 1..Len(holdings_df.rows) |->
                             holding_entry(holdings_df.rows[i], prices, market_caps)]
    IN  [kind |-> "data",
         qqq |-> [price |-> qqq_pd.price,
                  change_dollar |-> qqq_pd.change_dollar,
                  change_pct |-> qqq_pd.change_pct,
                  total_contribution |-> SumContributions(holdings_list)],
         holdings |-> sort_by_abs_contribution(holdings_list),
         market_status |-> market,
         fetched_at |-> fetched_at]

---------------------------------------------------------------------------
(* The upstream holdings responses explored *)

RECURSIVE SeqsUpTo(_, _)
SeqsUpTo(S, n) ==
    IF n = 0 THEN { <<>> }
    ELSE LET shorter == SeqsUpTo(S, n - 1)
         IN  shorter \cup { Append(q, x) : q \in shorter, x \in S }

Responses(tickers, weights) ==
    { ErrorResponse, NoColsResponse } \cup
    { Table(rows) :
        rows \in SeqsUpTo({ [ticker |-> t, weight |-> w] : t \in tickers, w \in weights },
                          MaxRows) }

InvescoResponses ==
    Responses({ Str(<<"A">>), Str(<<" ", "a", " ">>), Str(<<"B", "-", "A">>),
                Str(<<"B", ".", "A">>), NaCell },
              { Pct(300), Pct(20000), NaWeight, TextWeight })

SlickchartsResponses ==
    Responses({ Str(<<" ", "a", " ">>), Str(<<"B", "-", "A">>),
                Str(<<"A","A","A","A","A","A">>), NaCell },
              { Pct(300), Pct(500), Pct(0), TextWeight })

YfinanceResponses ==
    Responses({ Str(<<"A">>), Str(<<"B", ".", "A">>) },
              { Pct(300), Pct(20000), NaWeight })

InvescoResults == { fetch_holdings_invesco(r) : r \in InvescoResponses }
SlickchartsResults == { fetch_holdings_slickcharts(r) : r \in SlickchartsResponses }
YfinanceResults == { fetch_holdings_yfinance(r) : r \in YfinanceResponses }

---------------------------------------------------------------------------
(* Actions *)

Init ==
    /\ cache = InitCache
    /\ clock = StartClock
    /\ steps = 0
    /\ op = "init"
    /\ prevop = "init"
    /\ ret = NoFrame
    /\ raised = FALSE
    /\ calls = <<>>
    /\ arg = <<>>
    /\ threads = NoThreads

\* The operation called last
LastCalled == IF op = "tick" THEN prevop ELSE op

\* d seconds pass between two requests.
Elapse(d) ==
    /\ steps < MaxSteps
    /\ clock' = clock + d
    /\ steps' = steps + 1
    /\ op' = "tick"
    /\ prevop' = LastCalled
    /\ UNCHANGED <<cache, ret, raised, calls, arg, threads>>

\* Half the holdings TTL passes: two of these expire the holdings slot.
HalfDayPasses == Elapse(HOLDINGS_CACHE_TTL \div 2)

\* One call of get_qqq_holdings().
GetQqqHoldings ==
    /\ \E o \in get_qqq_holdings(cache, clock, InvescoResults, SlickchartsResults,
                                 YfinanceResults) :
          /\ cache' = o.cache
          /\ ret' = o.ret
          /\ raised' = o.raised
          /\ calls' = o.calls
    /\ op' = "get_qqq_holdings"
    /\ prevop' = LastCalled
    /\ UNCHANGED <<clock, steps, arg, threads>>

NextHoldings == HalfDayPasses \/ GetQqqHoldings

SpecHoldings == Init /\ [][NextHoldings]_vars

---------------------------------------------------------------------------
(* get_prices_batch on its own: the arguments are drawn at the start *)

TickerA == << "A" >>
TickerBDot == << "B", ".", "A" >>
TickerBSlash == << "B", "/", "A" >>

PriceTickerLists ==
    { <<>>, << TickerA >>, << TickerA, TickerBDot >>, << TickerBDot, TickerBSlash >> }

DailySeries ==
    { << NaPx >>,
      << Px(10000) >>,
      << Px(10000), Px(10253) >>,
      << Px(10000), Px(10100), NaPx >>,
      << Px(0), Px(1000) >>,
      << BadPx, Px(10000) >>,
      << Px(10000), BadPx >> }

IntradaySeries == { << NaPx >>, << Px(10337), NaPx >>, << BadPx >> }

\* The vendor names its columns by the upper-cased normalised ticker.
VendorColumns(tickers) ==
    { str_upper(normalize_ticker(tickers[i])) : i \in DOMAIN tickers }

Downloads(tickers, series) ==
    { DownloadError, FlatFrame(<<>>) }
    \cup { FlatFrame(x) : x \in series }
    \cup { MultiFrame(layout, cols) :
             layout \in { "ticker_major", "field_major" },
             cols \in UNION { [D -> series] : D \in SUBSET VendorColumns(tickers) } }

PriceArgs ==
    UNION { { [tickers |-> ts, intraday |-> i, daily |-> d] :
                i \in Downloads(ts, IntradaySeries), d \in Downloads(ts, DailySeries) }
            : ts \in PriceTickerLists }

InitPrices ==
    /\ cache = InitCache
    /\ clock = StartClock
    /\ steps = 0
    /\ op = "init"
    /\ prevop = "init"
    /\ ret = <<>>
    /\ raised = FALSE
    /\ calls = <<>>
    /\ arg \in PriceArgs
    /\ threads = NoThreads

\* One call of get_prices_batch(tickers) with the two downloads answered.
GetPricesBatch ==
    /\ op = "init"
    /\ LET r == get_prices_batch(arg.tickers, arg.intraday, arg.daily)
       IN  /\ ret' = r.quotes
           /\ raised' = r.raised
           /\ calls' = r.calls
    /\ op' = "get_prices_batch"
    /\ prevop' = LastCalled
    /\ UNCHANGED <<cache, clock, steps, arg, threads>>

NextPrices == GetPricesBatch

SpecPrices == InitPrices /\ [][NextPrices]_vars

---------------------------------------------------------------------------
(* get_market_status on its own: the instant is drawn at the start *)

\* Seconds after local midnight: each session boundary, the second before
\* it and the second after it, the start and the end of the day, and a time
\* well inside each session.
TimesOfDay ==
    UNION { { b - 1, b, b + 1 } : b \in { 4 * 3600, 9 * 3600 + 1800, 16 * 3600, 20 * 3600 } }
    \cup { 0, 2 * 3600, 7 * 3600, 10 * 3600, 18 * 3600, 22 * 3600, 86399 }

\* time.time() at 00:00 Eastern Standard Time on Monday 5 January 1970
MondayMidnight == 4 * 86400 + 5 * 3600

\* The instants explored: [weekday, t], Monday = 0, t seconds after midnight
Instants == [weekday : 0..6, t : TimesOfDay]

InitStatus ==
    /\ cache = InitCache
    /\ arg \in Instants
    /\ threads = NoThreads
    /\ clock = MondayMidnight + arg.weekday * 86400 + arg.t
    /\ steps = 0
    /\ op = "init"
    /\ prevop = "init"
    /\ ret = <<>>
    /\ raised = FALSE
    /\ calls = <<>>

\* One call of get_market_status() at the instant drawn.
GetMarketStatus ==
    /\ op = "init"
    /\ ret' = get_market_status(clock)
    /\ op' = "get_market_status"
    /\ prevop' = LastCalled
    /\ UNCHANGED <<cache, clock, steps, raised, calls, arg, threads>>

NextStatus == GetMarketStatus

SpecStatus == InitStatus /\ [][NextStatus]_vars

---------------------------------------------------------------------------
(* get_market_caps on its own: the tickers and the vendor's answers are    *)
(* drawn at the start; the futures complete one at a time, in any order,   *)
(* and the loop over as_completed() collects each as it completes.  calls  *)
(* is the sequence of the positions (in tickers) of the futures collected  *)
(* so far, ret the result dict built so far.                               *)

MaxCapTickers == 3      \* length of the ticker list

TickerBDash == << "B", "-", "A" >>
CapTickers == { TickerA, TickerBDash, TickerBDot }

\* What fast_info.market_cap yields per ticker when its request succeeds
CapValues == { [t \in CapTickers |-> 0],
               (TickerA :> 7) @@ (TickerBDash :> 8) @@ (TickerBDot :> 9) }

CapArgs ==
    [ tickers : SeqsUpTo(CapTickers, MaxCapTickers),
      resp : [down : BOOLEAN, failing : SUBSET CapTickers, value : CapValues] ]

InitCaps ==
    /\ cache = InitCache
    /\ clock = StartClock
    /\ steps = 0
    /\ op = "init"
    /\ prevop = "init"
    /\ ret = [kind |-> "caps", of |-> <<>>]
    /\ raised = FALSE
    /\ calls = <<>>
    /\ arg \in CapArgs
    /\ threads = NoThreads

CapsCallRunning == op \in { "init", "as_completed" }

\* Lines 544-546: the next future to complete is collected.
FutureCompleted ==
    /\ CapsCallRunning
    /\ ~MarketCapsFresh(cache, clock)
    /\ \E i \in DOMAIN arg.tickers :
          /\ \A k \in DOMAIN calls : calls[k] # i
          /\ ret' = [ret EXCEPT !.of = collect(ret.of, arg.tickers[i],
                                 fetch_single_market_cap(arg.tickers[i], arg.resp))]
          /\ calls' = Append(calls, i)
    /\ op' = "as_completed"
    /\ prevop' = LastCalled
    /\ UNCHANGED <<cache, clock, steps, raised, arg, threads>>

\* Lines 548-551: every future collected, the result is stored and returned.
ReturnMarketCaps ==
    /\ CapsCallRunning
    /\ Len(calls) = Len(arg.tickers)
    /\ cache' = [cache EXCEPT !.market_caps = ret, !.market_caps_ts = clock]
    /\ op' = "get_market_caps"
    /\ prevop' = LastCalled
    /\ UNCHANGED <<clock, steps, ret, raised, calls, arg, threads>>

NextCaps == FutureCompleted \/ ReturnMarketCaps

SpecCaps == InitCaps /\ [][NextCaps]_vars

---------------------------------------------------------------------------
(* get_qqq_data                                                            *)
(*                                                                         *)
(* env holds what the upstream services can answer during one call:        *)
(* R1, R2, R3 the values the three holdings fetchers can return, intraday  *)
(* and daily the possible answers to the two downloads, caps the possible  *)
(* answers to the market-cap requests, seconds how long the price fetch    *)
(* (the two downloads and the pause between them) can take.  A download    *)
(* answer is [kind, layout, series, missing]: every requested ticker's     *)
(* column holds series, except that the tickers in missing have none.      *)
(* The result of a call is [ret, cache, calls, raised, elapsed]; calls is  *)
(* the sequence of stages run, each with the upstream requests it issued.  *)

DownloadFor(answer, tickers) ==
    IF answer.kind = "error" THEN DownloadError
    ELSE MultiFrame(answer.layout,
                    [c \in VendorColumns(tickers) \ VendorColumns(answer.missing) |->
                        answer.series])

Stage(name, requests) == [stage |-> name, requests |-> requests]

\* Line 608: the price stage, with the tickers passed to get_prices_batch
\* and the downloads that raised
PriceStage(all_tickers, p) ==
    [stage |-> "prices", requests |-> p.calls, tickers |-> all_tickers,
     errors |-> p.errors]

\* Lines 357-389: which of the downloads requested by the batch p raised
with_errors(p, intraday, daily) ==
    [raised |-> p.raised, quotes |-> p.quotes, calls |-> p.calls,
     errors |-> IF p.calls = <<>> THEN {}
                ELSE { r \in { "intraday", "daily" } :
                         \/ r = "intraday" /\ intraday.kind = "error"
                         \/ r = "daily" /\ daily.kind = "error" }]

\* Faulty variant: the result stored under the time the pipeline ended
data_stored_at_end(result, m, log2, now, d) ==
    [ret |-> result,
     cache |-> [m.cache EXCEPT !.data = result, !.timestamp = now + d],
     calls |-> log2 \o << Stage("market_caps", m.calls),
                          Stage("contribution", <<>>),
                          Stage("store", <<>>) >>,
     raised |-> FALSE,
     elapsed |-> d]

\* Faulty variant: the result slot is never considered fresh
DataNeverFresh(c, now) == FALSE

DataFresh(c, now) ==
    c.data.kind # "none" /\ (now - c.timestamp) < PRICE_CACHE_TTL

data_failed(cc, log, d) ==
    [ret |-> NoData, cache |-> cc, calls |-> log, raised |-> TRUE, elapsed |-> d]

\* Lines 656-657: the result stored under the time taken at line 594
data_stored(result, m, log2, now, d) ==
    [ret |-> result,
     cache |-> [m.cache EXCEPT !.data = result, !.timestamp = now],
     calls |-> log2 \o << Stage("market_caps", m.calls),
                          Stage("contribution", <<>>),
                          Stage("store", <<>>) >>,
     raised |-> FALSE,
     elapsed |-> d]

\* Lines 613-657, given the market caps
data_assembled(holdings_df, p, m, log2, now, d) ==
    { data_stored(result, m, log2, now, d)
      : result \in { build_result(holdings_df, p.quotes, m.ret,
                                  get_market_status(now), now + d) } }

\* Lines 607-657, given the prices
data_with_prices(h, tickers, p, log2, now, d, env) ==
    IF p.raised THEN { data_failed(h.cache, log2, d) }
    ELSE UNION { data_assembled(h.ret, p, m, log2, now, d)
                 : m \in { get_market_caps(h.cache, now + d, tickers, capresp)
                           : capresp \in env.caps } }

\* Lines 601-657, given the holdings
data_with_holdings(h, tickers, all_tickers, log1, now, env) ==
    IF h.raised THEN { data_failed(h.cache, log1, 0) }
    ELSE UNION { data_with_prices(h, tickers, p,
                                  Append(log1, PriceStage(all_tickers, p)), now, d, env)
                 : p \in { with_errors(get_prices_batch(all_tickers, intraday, daily),
                                       intraday, daily)
                           : intraday \in { DownloadFor(a, all_tickers) : a \in env.intraday },
                             daily \in { DownloadFor(a, all_tickers) : a \in env.daily } },
                   d \in env.seconds }

\* holdings_df["ticker"].tolist()
frame_tickers(df) == [i \in 1..Len(df.rows) |-> df.rows[i].ticker]

call_sources(log) == [k \in 1..Len(log) |-> log[k].src]

\* Lines 600-658: the pipeline, run when the result slot is not fresh
recompute(c, now, env) ==
    UNION { UNION { data_with_holdings(h, tickers, << TickerQQQ >> \o tickers,
                                       << Stage("holdings", call_sources(h.calls)) >>,
                                       now, env)
                    : tickers \in { frame_tickers(h.ret) } }
            : h \in get_qqq_holdings(c, now, env.R1, env.R2, env.R3) }

get_qqq_data(c, now, env) ==
    IF DataFresh(c, now)
    THEN { [ret |-> c.data, cache |-> c, calls |-> <<>>, raised |-> FALSE, elapsed |-> 0] }
    ELSE recompute(c, now, env)

\* Faulty variant: the refresh expires the holdings slot instead of the result slot
force_refresh_holdings(c) == [c EXCEPT !.holdings_ts = 0]

\* Faulty variant: the refresh expires all three slots
force_refresh_all_slots(c) ==
    [c EXCEPT !.timestamp = 0, !.holdings_ts = 0, !.market_caps_ts = 0]

\* api_force_refresh: _cache["timestamp"] = 0.0
force_refresh(c) == [c EXCEPT !.timestamp = 0]

---------------------------------------------------------------------------
(* The service: the two handlers of app.py and the passing of time *)

Row(t, w) == [ticker |-> t, weight |-> w]

SysInvescoResponses ==
    { ErrorResponse,
      Table(<< Row(Str(<<" ", "a", " ">>), Pct(300)), Row(Str(<<"B", "-", "A">>), Pct(500)) >>),
      Table(<< Row(Str(<<"A">>), NaWeight), Row(Str(<<"B", "-", "A">>), Pct(500)) >>) }

SysSlickchartsResponses == { ErrorResponse }

SysYfinanceResponses ==
    { Table(<< Row(Str(<<"B", ".", "A">>), Pct(300)), Row(Str(<<"B", "-", "A">>), Pct(500)) >>),
      Table(<< Row(NaCell, Pct(300)), Row(Str(<<"B", "-", "A">>), Pct(500)) >>) }

\* The tickers the holdings frames of SysEnv can hold
SysTickers == { TickerA, TickerBDot, << "B", "-", "A" >> }

SysEnv ==
    [ R1 |-> { fetch_holdings_invesco(r) : r \in SysInvescoResponses },
      R2 |-> { fetch_holdings_slickcharts(r) : r \in SysSlickchartsResponses },
      R3 |-> { fetch_holdings_yfinance(r) : r \in SysYfinanceResponses },
      intraday |-> { [kind |-> "error", layout |-> "flat", series |-> <<>>, missing |-> <<>>],
                     [kind |-> "frame", layout |-> "ticker_major",
                      series |-> << Px(10337) >>, missing |-> <<>>] },
      daily |-> { [kind |-> "error", layout |-> "flat", series |-> <<>>, missing |-> <<>>],
                  [kind |-> "frame", layout |-> "ticker_major",
                   series |-> << Px(10000), Px(10253) >>, missing |-> << TickerA >>] },
      caps |-> { [down |-> TRUE, failing |-> {}, value |-> [t \in SysTickers |-> 0]],
                 [down |-> FALSE, failing |-> { TickerA },
                  value |-> [t \in SysTickers |-> 7]] },
      seconds |-> { 1, PRICE_CACHE_TTL + 1 } ]

TickSteps == { PRICE_CACHE_TTL - 2, HOLDINGS_CACHE_TTL - 2 }

\* Time passes between two requests.
Tick == \E d \in TickSteps : Elapse(d)

\* Faulty variant: a failed aggregation answered like an empty result
api_qqq_response_empty_result(o, now) ==
    [status |-> 200, error |-> FALSE,
     data |-> IF o.raised
              THEN [kind |-> "data", qqq |-> <<>>, holdings |-> <<>>,
                    market_status |-> get_market_status(now)]
              ELSE o.ret,
     cache_age_seconds |-> now - o.cache.timestamp]

\* Lines 29-42 of app.py: the response of api_qqq to the outcome o of
\* get_qqq_data, now being time.time() when the handler builds it
api_qqq_response(o, now) ==
    IF o.raised
    THEN [status |-> 500, error |-> TRUE,
          data |-> [kind |-> "error", qqq |-> <<>>, holdings |-> <<>>,
                    market_status |-> get_market_status(now)]]
    ELSE [status |-> 200, error |-> FALSE, data |-> o.ret,
          cache_age_seconds |-> now - o.cache.timestamp]

\* GET /api/qqq
ApiQqq ==
    /\ \E o \in get_qqq_data(cache, clock, SysEnv) :
          /\ o.elapsed > 0 => steps < MaxSteps
          /\ cache' = o.cache
          /\ clock' = clock + o.elapsed
          /\ steps' = IF o.elapsed > 0 THEN steps + 1 ELSE steps
          /\ calls' = o.calls
          /\ ret' = api_qqq_response(o, clock')
    /\ raised' = FALSE
    /\ op' = "api_qqq"
    /\ prevop' = LastCalled
    /\ UNCHANGED <<arg, threads>>

\* POST /api/refresh
ApiForceRefresh ==
    /\ cache' = force_refresh(cache)
    /\ ret' = [status |-> 200, error |-> FALSE, data |-> [kind |-> "cache_cleared"]]
    /\ raised' = FALSE
    /\ calls' = <<>>
    /\ op' = "api_force_refresh"
    /\ prevop' = LastCalled
    /\ UNCHANGED <<clock, steps, arg, threads>>

Next == Tick \/ ApiQqq \/ ApiForceRefresh

Spec == Init /\ [][Next]_vars

---------------------------------------------------------------------------
(* The threaded server: app.run(threaded=True) serves each request on a    *)
(* thread of its own and get_qqq_data takes no lock.  A thread's call of   *)
(* get_qqq_data is two steps: lines 594-598 (now is taken and the result   *)
(* slot is tested) and, on a miss, lines 600-658 (the pipeline runs and    *)
(* stores its result under the now taken at the start).  threads[t] is     *)
(* [pc, now]: pc "idle" between requests, "recomputing" while the          *)
(* pipeline of thread t runs.                                              *)

NThreads == 2           \* request threads served at a time

Threads == 1..NThreads
IdleThread == [pc |-> "idle", now |-> 0]

ThreadEnv ==
    [ SysEnv EXCEPT
        !.R1 = { fetch_holdings_invesco(
                    Table(<< Row(Str(<<"A">>), Pct(300)),
                             Row(Str(<<"B", "-", "A">>), Pct(500)) >>)) },
        !.caps = { [down |-> FALSE, failing |-> { TickerA },
                    value |-> [t \in SysTickers |-> 7]] },
        !.intraday = { [kind |-> "frame", layout |-> "ticker_major",
                        series |-> << Px(10337) >>, missing |-> <<>>] },
        !.daily = { [kind |-> "frame", layout |-> "ticker_major",
                     series |-> << Px(10000), Px(10253) >>, missing |-> << TickerA >>] },
        !.seconds = { 1 } ]

InitThreads ==
    /\ cache = InitCache
    /\ clock = StartClock
    /\ steps = 0
    /\ op = "init"
    /\ prevop = "init"
    /\ ret = <<>>
    /\ raised = FALSE
    /\ calls = <<>>
    /\ arg = <<>>
    /\ threads = [t \in Threads |-> IdleThread]

\* Lines 594-598, the slot is fresh: the request of thread t is answered
\* from the cache.
ServeFromCache(t) ==
    /\ threads[t].pc = "idle"
    /\ DataFresh(cache, clock)
    /\ ret' = api_qqq_response([ret |-> cache.data, cache |-> cache, raised |-> FALSE],
                               clock)
    /\ calls' = <<>>
    /\ raised' = FALSE
    /\ op' = "api_qqq"
    /\ prevop' = LastCalled
    /\ UNCHANGED <<cache, clock, steps, arg, threads>>

\* Lines 594-600, the slot is not fresh: thread t takes now and enters the
\* pipeline.
StartRecompute(t) ==
    /\ threads[t].pc = "idle"
    /\ ~DataFresh(cache, clock)
    /\ threads' = [threads EXCEPT ![t] = [pc |-> "recomputing", now |-> clock]]
    /\ op' = "get_qqq_data"
    /\ prevop' = LastCalled
    /\ UNCHANGED <<cache, clock, steps, ret, raised, calls, arg>>

\* Lines 600-658 and the rest of api_qqq: the pipeline of thread t ends, its
\* result is stored under the now the thread took, and the request is
\* answered.
FinishRecompute(t) ==
    /\ threads[t].pc = "recomputing"
    /\ \E o \in recompute(cache, threads[t].now, ThreadEnv) :
          /\ cache' = o.cache
          /\ calls' = o.calls
          /\ ret' = api_qqq_response(o, clock)
    /\ threads' = [threads EXCEPT ![t] = IdleThread]
    /\ raised' = FALSE
    /\ op' = "api_qqq"
    /\ prevop' = LastCalled
    /\ UNCHANGED <<clock, steps, arg>>

NextThreads ==
    \/ Tick
    \/ ApiForceRefresh
    \/ \E t \in Threads : ServeFromCache(t)
    \/ \E t \in Threads : StartRecompute(t)
    \/ \E t \in Threads : FinishRecompute(t)

SpecThreads == InitThreads /\ [][NextThreads]_vars

---------------------------------------------------------------------------
(* Claims about the result cache, checked under Spec *)

StageNames(log) == [i \in 1..Len(log) |-> log[i].stage]
FullPipeline == << "holdings", "prices", "market_caps", "contribution", "store" >>

\* C1: a call of get_qqq_data made while a result is stored and younger
\* than PRICE_CACHE_TTL, hence with no forced refresh since it was stored,
\* returns the stored result, which is the previous call's result, changes
\* nothing in the cache and requests no holdings source, no price batch and
\* no market cap.
C1_HitReturnsStoredResult ==
    [][ ( /\ op' = "api_qqq"
          /\ cache.data.kind = "data"
          /\ clock - cache.timestamp < PRICE_CACHE_TTL )
        => ( /\ LastCalled = "api_qqq"
             /\ ret'.status = 200
             /\ ret'.data = cache.data
             /\ ret'.data = ret.data
             /\ calls' = <<>>
             /\ cache' = cache
             /\ clock' = clock ) ]_vars

\* Two calls in a row, the second one PRICE_CACHE_TTL - 1 seconds after the
\* time under which the result was stored, served from the cache.
C1_Witness ==
    /\ op = "api_qqq" /\ prevop = "api_qqq"
    /\ ret.status = 200
    /\ ret.cache_age_seconds = PRICE_CACHE_TTL - 1
    /\ ret.data = cache.data
    /\ calls = <<>>

---------------------------------------------------------------------------
(* Claims about get_qqq_holdings, checked under SpecHoldings *)

HoldingsCallDone == op = "get_qqq_holdings"
TierOrder == << "invesco", "slickcharts", "yfinance", "static" >>
TierFailed(df) == df.kind # "df" \/ df.rows = <<>>

\* C3: get_qqq_holdings never raises and always returns a non-empty
\* holdings set, whatever the three upstream tiers answer.
C3_NeverRaisesNonEmpty ==
    HoldingsCallDone => /\ ~raised
                        /\ ret.kind = "df"
                        /\ ret.rows # <<>>

\* All three upstream tiers failed and the static snapshot was returned.
C3_Witness ==
    /\ HoldingsCallDone
    /\ Len(calls) = 4
    /\ \A i \in 1..3 : TierFailed(calls[i].df)
    /\ calls[1].df.kind = "none" /\ calls[2].df.kind = "df"
    /\ ret.rows = STATIC_HOLDINGS

\* C4: on a holdings cache miss the tiers are requested in the order
\* invesco, slickcharts, yfinance, static; every requested tier but the last
\* failed, the last one succeeded and its value is the one returned.
C4_TierOrder ==
    [][ ( /\ op' = "get_qqq_holdings" /\ clock' = clock
          /\ ~(cache.holdings.kind = "df"
               /\ clock - cache.holdings_ts < HOLDINGS_CACHE_TTL) )
        => ( /\ Len(calls') \in 1..4
             /\ \A i \in 1..Len(calls') : calls'[i].src = TierOrder[i]
             /\ \A i \in 1..(Len(calls') - 1) : TierFailed(calls'[i].df)
             /\ ~TierFailed(calls'[Len(calls')].df)
             /\ ret' = calls'[Len(calls')].df ) ]_vars

\* The second tier answered after the first returned an empty frame, and
\* the third tier was not requested.
C4_Witness ==
    /\ HoldingsCallDone
    /\ Len(calls) = 2
    /\ calls[1].df.kind = "df" /\ calls[1].df.rows = <<>>
    /\ ret = calls[2].df
    /\ Len(ret.rows) = 2

\* C5: while a stored holdings set is younger than HOLDINGS_CACHE_TTL a call
\* requests no source, returns the stored set and leaves the cache alone.
C5_NoRefetchWithinTTL ==
    [][ ( /\ op' = "get_qqq_holdings" /\ clock' = clock
          /\ cache.holdings.kind = "df"
          /\ clock - cache.holdings_ts < HOLDINGS_CACHE_TTL )
        => ( /\ calls' = <<>>
             /\ ret' = cache.holdings
             /\ ~raised'
             /\ cache' = cache ) ]_vars

\* A call served from the cache half a day after the static snapshot was
\* stored.
C5_Witness ==
    /\ HoldingsCallDone
    /\ calls = <<>>
    /\ clock - cache.holdings_ts = HOLDINGS_CACHE_TTL \div 2
    /\ ret = cache.holdings
    /\ ret.rows = STATIC_HOLDINGS

\* C6: every ticker of a returned holdings set has the ticker format and
\* every weight lies in [0, 1].
C6_TickerFormatAndWeightRange ==
    HoldingsCallDone =>
        \A i \in DOMAIN ret.rows :
            /\ ticker_match(ret.rows[i].ticker)
            /\ IsNum(ret.rows[i].weight)
            /\ Val(ret.rows[i].weight) >= 0
            /\ Val(ret.rows[i].weight) <= One

\* a >= b on floats: false when either side is NaN
FloatGeq(a, b) == IsNum(a) /\ IsNum(b) /\ Val(a) >= Val(b)

\* C7: every returned holdings set is ordered by non-increasing weight.
C7_SortedByWeight ==
    HoldingsCallDone =>
        \A i \in 1..(Len(ret.rows) - 1) :
            FloatGeq(ret.rows[i].weight, ret.rows[i + 1].weight)

\* C8: no ticker occurs twice in a returned holdings set.
C8_UniqueTickers ==
    HoldingsCallDone =>
        \A i, j \in DOMAIN ret.rows :
            i # j => ret.rows[i].ticker # ret.rows[j].ticker

---------------------------------------------------------------------------
(* Claims about get_prices_batch, checked under SpecPrices *)

PricesCallDone == op = "get_prices_batch"
RequestedNorm == { normalize_ticker(arg.tickers[i]) : i \in DOMAIN arg.tickers }
NRequested == Cardinality(RequestedNorm)
AllAbsent ==
    [price |-> <<>>, prev_close |-> <<>>, change_dollar |-> <<>>,
     change_pct |-> <<>>, valid |-> FALSE]

\* The closes the claim's derivation reads for an original ticker t.
IntradayCloses(t) == get_series(arg.intraday, normalize_ticker(t), NRequested)
DailyCloses(t) == get_series(arg.daily, normalize_ticker(t), NRequested)

CurrentResolved(t) ==
    IF IntradayCloses(t) # <<>>
    THEN Last(IntradayCloses(t)).k = "num"
    ELSE DailyCloses(t) # <<>> /\ Last(DailyCloses(t)).k = "num"

PrevCloseResolved(t) ==
    /\ DailyCloses(t) # <<>>
    /\ IF Len(DailyCloses(t)) >= 2
       THEN DailyCloses(t)[Len(DailyCloses(t)) - 1].k = "num"
       ELSE Last(DailyCloses(t)).k = "num"

\* C9: every quote returned by get_prices_batch is either valid with its
\* four numbers present or invalid with all four absent, and it is valid
\* exactly when the current price and the previous close were both resolved.
C9_QuoteShape ==
    PricesCallDone =>
        \A t \in DOMAIN ret :
            /\ \/ /\ ret[t].valid
                  /\ IsNum(ret[t].price) /\ IsNum(ret[t].prev_close)
                  /\ IsNum(ret[t].change_dollar) /\ IsNum(ret[t].change_pct)
               \/ /\ ~ret[t].valid
                  /\ ret[t].price = <<>> /\ ret[t].prev_close = <<>>
                  /\ ret[t].change_dollar = <<>> /\ ret[t].change_pct = <<>>
            /\ ret[t].valid <=> (CurrentResolved(t) /\ PrevCloseResolved(t))

\* One batch returned a valid quote and an empty one.
C9_Witness ==
    /\ PricesCallDone
    /\ \E t, u \in DOMAIN ret : ret[t].valid /\ ~ret[u].valid /\ ret[u] = AllAbsent

\* C10: a failure while extracting one ticker's quote does not abort the
\* batch: the call does not raise, the failing ticker gets the empty quote
\* and every other ticker the quote its own data determines.
C10_FailureIsolated ==
    PricesCallDone =>
        /\ ~raised
        /\ \A nt \in RequestedNorm : \E t \in DOMAIN ret : normalize_ticker(t) = nt
        /\ \A t \in DOMAIN ret :
              LET r == extract_price(normalize_ticker(t), arg.intraday, arg.daily,
                                     NRequested)
              IN  ret[t] = IF r.exc THEN AllAbsent ELSE r.quote

\* One ticker's extraction raised and another ticker of the same batch got
\* a valid quote.
C10_Witness ==
    /\ PricesCallDone
    /\ ~raised
    /\ \E t, u \in DOMAIN ret :
          /\ extract_price(normalize_ticker(t), arg.intraday, arg.daily, NRequested).exc
          /\ ret[t] = AllAbsent
          /\ ret[u].valid

\* C11: for a non-empty list of requested tickers the keys of the map
\* returned by get_prices_batch are exactly the requested original tickers,
\* also when two of them normalise to the same vendor ticker.
C11_KeysAreRequestedTickers ==
    (PricesCallDone /\ arg.tickers # <<>>) =>
        DOMAIN ret = { arg.tickers[i] : i \in DOMAIN arg.tickers }


\* C12: per ticker the current price is the last non-missing intraday close
\* when the intraday series is present and otherwise the last daily value,
\* the previous close is the second-to-last daily value when the daily
\* series has at least two points and otherwise its single value, and the
\* quote is the empty quote when the daily series is absent, even if an
\* intraday price was found.
C12_PriceSelection ==
    PricesCallDone =>
        \A t \in DOMAIN ret :
            /\ DailyCloses(t) = <<>> => ret[t] = AllAbsent
            /\ ret[t].valid =>
                  /\ ret[t].price =
                        Num(RoundDiv(IF IntradayCloses(t) # <<>>
                                     THEN IntradayCloses(t)[Len(IntradayCloses(t))].v
                                     ELSE DailyCloses(t)[Len(DailyCloses(t))].v, 10))
                  /\ ret[t].prev_close =
                        Num(RoundDiv(IF Len(DailyCloses(t)) >= 2
                                     THEN DailyCloses(t)[Len(DailyCloses(t)) - 1].v
                                     ELSE DailyCloses(t)[1].v, 10))

\* In one batch a ticker with an intraday price and two daily bars got a
\* valid quote, and a ticker with an intraday price and no daily series got
\* the empty quote.
C12_Witness ==
    /\ PricesCallDone
    /\ \E t, u \in DOMAIN ret :
          /\ ret[t].valid
          /\ IntradayCloses(t) # <<>> /\ Len(DailyCloses(t)) >= 2
          /\ ret[t].price # ret[t].prev_close
          /\ IntradayCloses(u) # <<>> /\ Last(IntradayCloses(u)).k = "num"
          /\ DailyCloses(u) = <<>>
          /\ ret[u] = AllAbsent


\* The unrounded amounts _extract_price works with for an original ticker t,
\* in thousandths of a dollar.
RawCurrent(t) ==
    IF IntradayCloses(t) # <<>> THEN IntradayCloses(t)[Len(IntradayCloses(t))].v
    ELSE DailyCloses(t)[Len(DailyCloses(t))].v
RawPrevClose(t) ==
    IF Len(DailyCloses(t)) >= 2 THEN DailyCloses(t)[Len(DailyCloses(t)) - 1].v
    ELSE DailyCloses(t)[1].v

\* C13 as stated: the change_pct of every valid quote is exactly
\* change_dollar / prev_close * 100 of the quote's own reported change_dollar
\* and prev_close, and 0 when prev_close is 0.
C13_PctFromReportedFields ==
    PricesCallDone =>
        \A t \in DOMAIN ret :
            ret[t].valid =>
                ret[t].change_pct =
                    IF Val(ret[t].prev_close) = 0 THEN Num(0)
                    ELSE Num(RoundDiv(Val(ret[t].change_dollar) * 1000000,
                                      Val(ret[t].prev_close)))

\* C13, amended: the change_pct of every valid quote is the unrounded change
\* divided by the unrounded previous close, times 100, rounded to four
\* decimals, and 0 when the unrounded previous close is 0.
C13_PctFromUnroundedAmounts ==
    PricesCallDone =>
        \A t \in DOMAIN ret :
            ret[t].valid =>
                ret[t].change_pct =
                    IF RawPrevClose(t) = 0 THEN Num(0)
                    ELSE Num(RoundDiv((RawCurrent(t) - RawPrevClose(t)) * 1000000,
                                      RawPrevClose(t)))

\* One batch returned a valid quote with a non-zero percentage that differs
\* from the quotient of its reported fields, and a valid quote whose
\* previous close is 0.
C13_Witness ==
    /\ PricesCallDone
    /\ \E t, u \in DOMAIN ret :
          /\ ret[t].valid /\ Val(ret[t].prev_close) > 0
          /\ Val(ret[t].change_pct) # 0
          /\ Val(ret[t].change_pct) #
                RoundDiv(Val(ret[t].change_dollar) * 1000000, Val(ret[t].prev_close))
          /\ ret[u].valid /\ RawPrevClose(u) = 0 /\ ret[u].change_pct = Num(0)


---------------------------------------------------------------------------
(* Claims about the aggregate result, checked under Spec *)

\* A call of api_qqq that recomputed and stored an AggregateResult
Recomputed == op = "api_qqq" /\ ret.status = 200 /\ calls # <<>>

Reorderings(n) ==
    { f \in [1..n -> 1..n] : \A i, j \in 1..n : f[i] = f[j] => i = j }

\* C14: every holding of the resolved holdings set appears exactly once in
\* the holdings list of the AggregateResult; a holding whose quote is
\* missing or invalid has contribution 0 and valid = FALSE, and a holding
\* with a valid quote has contribution weight * change_pct rounded to four
\* decimals.
C14_EveryHoldingOnceWithContribution ==
    Recomputed =>
        /\ Len(ret.data.holdings) = Len(cache.holdings.rows)
        /\ \E f \in Reorderings(Len(cache.holdings.rows)) :
              \A i \in DOMAIN cache.holdings.rows :
                  LET row == cache.holdings.rows[i]
                      e == ret.data.holdings[f[i]]
                  IN  /\ e.ticker = row.ticker
                      /\ IF e.valid
                         THEN /\ IsNum(row.weight)
                              /\ e.contribution =
                                    Num(RoundDiv(Val(row.weight) * e.change_pct, One))
                         ELSE e.contribution = Num(0)


\* C15: the holdings list of every AggregateResult is ordered by
\* non-increasing absolute contribution: each entry's |contribution| is at
\* least that of the entry after it.
C15_SortedByAbsContribution ==
    Recomputed =>
        \A i \in 1..(Len(ret.data.holdings) - 1) :
            /\ IsNum(ret.data.holdings[i].contribution)
            /\ IsNum(ret.data.holdings[i + 1].contribution)
            /\ Abs(Val(ret.data.holdings[i].contribution)) >=
                  Abs(Val(ret.data.holdings[i + 1].contribution))


---------------------------------------------------------------------------
(* Claims about get_market_status, checked under SpecStatus *)

StatusCallDone == op = "get_market_status"

\* hh:mm as seconds after midnight
HM(h, m) == h * 3600 + m * 60

\* C16: get_market_status maps every instant to exactly one session: closed
\* (refresh 300 s) at every time of Saturday and Sunday; on weekdays pre
\* (120 s) in [04:00, 09:30), open (75 s) in [09:30, 16:00), after (120 s)
\* in [16:00, 20:00) and closed (300 s) at every other time.
C16_SessionOfInstant ==
    StatusCallDone =>
        /\ ret.session \in { "closed", "pre", "open", "after" }
        /\ arg.weekday \in { 5, 6 } =>
              ret.session = "closed" /\ ret.refresh_interval = 300
        /\ arg.weekday \in 0..4 =>
              /\ (HM(4, 0) <= arg.t /\ arg.t < HM(9, 30)) =>
                    ret.session = "pre" /\ ret.refresh_interval = 120
              /\ (HM(9, 30) <= arg.t /\ arg.t < HM(16, 0)) =>
                    ret.session = "open" /\ ret.refresh_interval = 75
              /\ (HM(16, 0) <= arg.t /\ arg.t < HM(20, 0)) =>
                    ret.session = "after" /\ ret.refresh_interval = 120
              /\ (arg.t < HM(4, 0) \/ arg.t >= HM(20, 0)) =>
                    ret.session = "closed" /\ ret.refresh_interval = 300

\* The status of Saturday 10:00 was computed: closed although the time of
\* day lies in the weekday's open session.
C16_Witness ==
    /\ StatusCallDone
    /\ arg.weekday = 5 /\ arg.t = HM(10, 0)
    /\ ret.session = "closed"


---------------------------------------------------------------------------
(* Claims about get_market_caps, checked under SpecCaps *)

CapsCallDone == op = "get_market_caps"
RequestFails(t) == arg.resp.down \/ t \in arg.resp.failing

\* C17: whichever tickers' requests fail, get_market_caps completes without
\* raising, maps each failed ticker to absent and every other ticker to the
\* value its own request returned, in whatever order the workers finish;
\* the result is the one get_market_caps computes in one step.
C17_FailedCapsAbsentOthersKept ==
    CapsCallDone =>
        /\ ~raised
        /\ DOMAIN ret.of = { arg.tickers[i] : i \in DOMAIN arg.tickers }
        /\ \A t \in DOMAIN ret.of :
              ret.of[t] = IF RequestFails(t) \/ arg.resp.value[t] = 0 THEN <<>>
                          ELSE << arg.resp.value[t] >>
        /\ ret = get_market_caps(InitCache, clock, arg.tickers, arg.resp).ret
        /\ cache.market_caps = ret

\* A call returned after the futures completed out of submission order, with
\* one ticker's request failed and another ticker's market cap kept.
C17_Witness ==
    /\ CapsCallDone
    /\ Len(calls) >= 2 /\ calls[1] > calls[2]
    /\ \E t, u \in DOMAIN ret.of :
          /\ RequestFails(t) /\ ret.of[t] = <<>>
          /\ ~RequestFails(u) /\ ret.of[u] # <<>>


---------------------------------------------------------------------------
(* Claims about the api_qqq boundary, checked under Spec *)

ApiQqqDone == op = "api_qqq"

\* get_qqq_data started the pipeline and left it before the store
AggregationFailed ==
    calls # <<>> /\ calls[Len(calls)].stage # "store"

\* C20: whenever get_qqq_data raises during aggregation, api_qqq answers
\* with status 500 and the error payload (error set, empty fund and
\* holdings) together with the session state computed at that moment; a
\* status-200 answer carries a stored AggregateResult, never the outcome of
\* a failed aggregation.
C20_FailureReportedAsError ==
    ApiQqqDone =>
        /\ AggregationFailed =>
              /\ ret.status = 500 /\ ret.error
              /\ ret.data.kind = "error"
              /\ ret.data.qqq = <<>> /\ ret.data.holdings = <<>>
              /\ ret.data.market_status = get_market_status(clock)
        /\ ret.status = 200 =>
              /\ ~AggregationFailed /\ ~ret.error
              /\ ret.data.kind = "data" /\ ret.data = cache.data
        /\ ret.status \in { 200, 500 }

\* An aggregation failed after its holdings stage and was answered with the
\* error payload.
C20_Witness ==
    /\ ApiQqqDone
    /\ AggregationFailed
    /\ calls[1].stage = "holdings"
    /\ ret.status = 500 /\ ret.data.holdings = <<>>


---------------------------------------------------------------------------
(* Claims about overlapping requests, checked under SpecThreads *)

Recomputing == { t \in Threads : threads[t].pc = "recomputing" }

\* C18: at most one recomputation of the result slot is in flight at a
\* time: while one thread runs the pipeline no other thread has started it.
C18_OneRecomputationInFlight ==
    Cardinality(Recomputing) <= 1

\* C19: once the result slot has been written its timestamp never goes
\* backwards, whatever the interleaving of get_qqq_data calls and forced
\* refreshes: no step takes _cache["timestamp"] below the value a reader
\* could see before it.
C19_TimestampNeverGoesBack ==
    [][ cache.data.kind # "none" => cache'.timestamp >= cache.timestamp ]_vars


---------------------------------------------------------------------------
(* Claims about the pipeline of get_qqq_data, checked under Spec *)

IsPrefix(a, b) == Len(a) <= Len(b) /\ a = SubSeq(b, 1, Len(a))

\* C21: on every miss of the result slot get_qqq_data runs its stages in
\* the fixed order holdings, one price batch for the fund ticker plus all
\* holdings tickers, market caps for the holdings tickers, contribution,
\* store; the result slot is written only by a call that completed every
\* earlier stage, and the stored timestamp is the time taken before the
\* first stage.
C21_StagesInOrderThenStore ==
    [][ ( op' = "api_qqq" /\ calls' # <<>> )
        => ( /\ ~DataFresh(cache, clock)
             /\ IsPrefix(StageNames(calls'), FullPipeline)
             /\ Len(calls') >= 2 =>
                   calls'[2].tickers = << TickerQQQ >> \o frame_tickers(cache'.holdings)
             /\ Len(calls') >= 3 =>
                   /\ calls'[2].requests = << "intraday", "daily" >>
                   /\ calls'[3].requests \in { <<>>, frame_tickers(cache'.holdings) }
             /\ IF StageNames(calls') = FullPipeline
                THEN /\ cache'.data = ret'.data
                     /\ cache'.timestamp = clock
                ELSE /\ cache'.data = cache.data
                     /\ cache'.timestamp = cache.timestamp ) ]_vars

\* A miss ran the five stages, fetched the market caps of the holdings
\* tickers, and stored its result under the time the call began, which is
\* earlier than the time the call ended.
C21_Witness ==
    /\ op = "api_qqq"
    /\ StageNames(calls) = FullPipeline
    /\ calls[2].tickers = << TickerQQQ >> \o frame_tickers(cache.holdings)
    /\ calls[3].requests = frame_tickers(cache.holdings)
    /\ cache.data = ret.data
    /\ cache.timestamp < clock
    /\ ret.cache_age_seconds > PRICE_CACHE_TTL


\* The price batch of the last api_qqq call requested its downloads and the
\* daily one raised
DailyBatchFailed ==
    /\ op = "api_qqq"
    /\ Len(calls) >= 2
    /\ "daily" \in calls[2].errors

\* C22: when the daily batched price request fails as a whole, alone or
\* together with the intraday one, the price batch does not raise and gives
\* every ticker the empty quote, and get_qqq_data completes and stores an
\* AggregateResult in which every holding has valid = FALSE and
\* contribution 0 and total_contribution is 0.
C22_DailyFailureDegradesToEmpty ==
    DailyBatchFailed =>
        /\ ret.status = 200
        /\ StageNames(calls) = FullPipeline
        /\ cache.data = ret.data
        /\ ret.data.qqq.price = <<>>
        /\ \A i \in DOMAIN ret.data.holdings :
              /\ ~ret.data.holdings[i].valid
              /\ ret.data.holdings[i].price = <<>>
              /\ ret.data.holdings[i].contribution = Num(0)
        /\ ret.data.qqq.total_contribution = Num(0)


\* C23: every map returned by get_market_caps has an entry, a value or
\* absent, for every requested ticker, also when the call is served from
\* the market-cap slot after the holdings slot expired and was refreshed
\* with a different ticker set.  The map returned to a completed pipeline
\* is the one in the market-cap slot, the tickers requested are those of
\* the holdings slot.
C23_CapsCoverRequestedTickers ==
    Recomputed =>
        \A i \in DOMAIN cache.holdings.rows :
            cache.holdings.rows[i].ticker \in DOMAIN cache.market_caps.of


---------------------------------------------------------------------------
(* Claims about the forced refresh *)

\* C24: a forced refresh changes only the timestamp of the result slot: the
\* stored result, the holdings slot and the market-cap slot keep their
\* values and timestamps; hence the recomputation that follows it while
\* those two slots are within HOLDINGS_CACHE_TTL attempts no holdings
\* source and issues no market-cap request.
C24_RefreshTouchesOnlyResultTimestamp ==
    /\ [][ op' = "api_force_refresh" =>
              /\ cache'.timestamp = 0
              /\ cache'.data = cache.data
              /\ cache'.holdings = cache.holdings
              /\ cache'.holdings_ts = cache.holdings_ts
              /\ cache'.market_caps = cache.market_caps
              /\ cache'.market_caps_ts = cache.market_caps_ts ]_vars
    /\ [][ ( /\ op' = "api_qqq"
             /\ LastCalled = "api_force_refresh"
             /\ HoldingsFresh(cache, clock)
             /\ MarketCapsFresh(cache, clock') )
           => ( /\ calls' # <<>>
                /\ calls'[1] = Stage("holdings", <<>>)
                /\ \A k \in DOMAIN calls' :
                      calls'[k].stage = "market_caps" => calls'[k].requests = <<>>
                /\ cache'.holdings = cache.holdings
                /\ cache'.holdings_ts = cache.holdings_ts
                /\ cache'.market_caps = cache.market_caps
                /\ cache'.market_caps_ts = cache.market_caps_ts ) ]_vars

\* A refresh was forced on a populated cache and the call after it ran the
\* whole pipeline with the holdings and the market caps of the earlier call,
\* whose slots are older than the new result.
C24_Witness ==
    /\ op = "api_qqq" /\ prevop = "api_force_refresh"
    /\ ret.status = 200
    /\ Len(calls) = 5
    /\ calls[1] = Stage("holdings", <<>>)
    /\ calls[3] = Stage("market_caps", <<>>)
    /\ cache.holdings_ts < cache.timestamp
    /\ cache.market_caps_ts < cache.timestamp
    /\ cache.market_caps.kind = "caps"


\* A recomputation that was in flight when the last refresh was forced has
\* just stored its result, and no other recomputation is in flight: the
\* event before the store was the forced refresh, so the pipeline that
\* stored began before it.
StoredAcrossRefresh ==
    /\ op = "api_qqq" /\ prevop = "api_force_refresh"
    /\ calls # <<>> /\ ret.status = 200
    /\ Recomputing = {}

\* C25: a forced refresh that arrives while a recomputation is in flight is
\* not lost: the first get_qqq_data call that starts after the refresh
\* returned and after the in-flight recomputation stored is not answered
\* from the cache with the result whose computation began before the
\* refresh; it recomputes.
C25_RefreshDuringRecomputeNotLost ==
    [][ ( StoredAcrossRefresh /\ op' \in { "api_qqq", "get_qqq_data" } )
        => ( op' = "get_qqq_data" /\ Recomputing' # {} ) ]_vars

=============================================================================
